---- MODULE Spec2Model ----
(***************************************************************************)
(* mod2mus: conversion of a ProTracker MOD file to the MUS event stream.   *)
(* The model follows main() of src/mod2mus.cpp: header validation, the     *)
(* order / row / channel loops with the period resolver, the effect        *)
(* switch and the three emission branches, the write of the song header    *)
(* and the sample loop.                                                    *)
(***************************************************************************)
EXTENDS Integers, Sequences, FiniteSets, TLC

VARIABLES
    pc,            \* position in main(): "start", "ord", "cell", "exit", "note",
                   \* "effect", "sample"
    exitCode,      \* value returned by main(), read when pc = "exit"
    inputOk,       \* fIn opened                     (line 197)
    outputOk,      \* fOut opened                    (line 203)
    modHeader,     \* the fields of MODFileHeader the conversion reads
    numChannels,   \* line 214
    ord,           \* loop variable of the order loop (line 291)
    row,           \* loop variable of the row loop   (line 298)
    chn,           \* loop variable of the channel loop (line 301)
    startRow,      \* line 290
    channelState,  \* std::vector<ChannelState>       (line 287)
    musicData,     \* std::vector<uint8_t>            (line 288)
    kmSong,        \* restartPos, musicSize, chunkSize of KMSongHeader
    outBytes,      \* number of bytes written to fOut
    period,        \* the period handed to the resolver (line 308)
    note,          \* the note it resolved              (line 309)
    fill,          \* input file: the cell each channel's column currently repeats
    free,          \* input file: rows in which a column may still change its cell
    cells,         \* input file: the cells a column is drawn from
    playOrd,       \* history: order index fIn was last positioned at (line 293), -1 before
    cellPos,       \* history: cells read from fIn since that seek
    holdRun,       \* history: per channel, holds since its last full event (-1: none)
    ctl,           \* history: control effects processed in the current row
    restartSets,   \* history: number of assignments to kmSong.restartPos
    lastKind,      \* history: branch the last cell took: "none", "event", "hold", "flag"
    lastEvent,     \* history: offset of the last 4-byte event appended, -1 when none
    effectIn,      \* the cell handed to the effect switch    (line 335)
    effectOut,     \* command and param after the switch      (lines 332-377)
    samples,       \* input file: the sample headers a slot is drawn from
    smp,           \* loop variable i of the sample loop      (line 416)
    modSample,     \* length, loopStart, loopLength of modHeader.sample[i] (line 418)
    kmSample,      \* loopStart, sampleSize, chunkSize of KMSampleHeader (line 420)
    srcPos,        \* bytes read from fIn since the seek of line 414
    declared,      \* history: twice the declared lengths of the slots before smp
    chunks         \* history: SMPL chunks written to fOut

vars == <<pc, exitCode, inputOk, outputOk, modHeader, numChannels, ord, row, chn,
          startRow, channelState, musicData, kmSong, outBytes, period, note,
          fill, free, cells, playOrd, cellPos, holdRun, ctl, restartSets, lastKind,
          lastEvent, effectIn, effectOut, samples, smp, modSample, kmSample, srcPos,
          declared, chunks>>

\* the variables of the effect switch and of the sample loop
auxVars == <<effectIn, effectOut, samples, smp, modSample, kmSample, srcPos, declared, chunks>>

(***************************************************************************)
(* Bounds of the model and constants of the program                        *)
(***************************************************************************)
MaxOrders == 3          \* largest valid order count the inputs declare

NumRows == 64           \* rows of a pattern
MaxOrderCount == 128    \* largest order count main() accepts
SongHeaderSize == 1108  \* sizeof(KMSongHeader)
Sentinel == 255         \* initial value of the ChannelState fields
RepeatFirst == 128      \* a fresh repeat-count byte, also the continuation flag
RepeatLast == 255       \* a saturated repeat-count byte
NoEffect == 20          \* command 0x14
NoPeriod == 4095        \* period 0xFFF
NumSamples == 31        \* sample slots of a MOD file
SampleHeaderSize == 48  \* sizeof(KMSampleHeader)

Min(S) == CHOOSE x \in S : \A y \in S : x <= y

(***************************************************************************)
(* Period resolver                                                         *)
(***************************************************************************)
ProTrackerPeriodTable ==
    << 856,808,762,720,678,640,604,570,538,508,480,453,
       428,404,381,360,339,320,302,285,269,254,240,226,
       214,202,190,180,170,160,151,143,135,127,120,113 >>

\* table entry of the C++ index i (0-based)
Table(i) == ProTrackerPeriodTable[i + 1]

\* faulty variant: the tie between two neighbours goes to the larger period
PeriodToNoteTieUp(p) ==
    IF p > 0 /\ p # NoPeriod
    THEN LET hits == {i \in 0..35 : p >= Table(i)}
         IN  IF hits = {} THEN 0
             ELSE LET i == Min(hits)
                  IN  IF p # Table(i) /\ i # 0 /\ Table(i - 1) - p <= p - Table(i)
                      THEN i ELSE i + 1
    ELSE 0

\* faulty variant: the 0-based table index is taken as the note
PeriodToNoteZeroBased(p) ==
    IF p > 0 /\ p # NoPeriod
    THEN LET hits == {i \in 0..35 : p >= Table(i)}
         IN  IF hits = {} THEN 0
             ELSE LET i == Min(hits)
                  IN  IF p # Table(i) /\ i # 0 /\ Table(i - 1) - p < p - Table(i)
                      THEN i - 1 ELSE i
    ELSE 0

\* lines 309-330: the first table entry not above the period, or its
\* predecessor when that one is strictly closer; 0 when the scan finds none
PeriodToNote(p) ==
    IF p > 0 /\ p # NoPeriod
    THEN LET hits == {i \in 0..35 : p >= Table(i)}
         IN  IF hits = {} THEN 0
             ELSE LET i == Min(hits)
                  IN  IF p # Table(i) /\ i # 0 /\ Table(i - 1) - p < p - Table(i)
                      THEN i ELSE i + 1
    ELSE 0

(***************************************************************************)
(* Decoding of a 4-byte cell (modData[0..3] is cell[1..4])                 *)
(***************************************************************************)
\* line 308
CellPeriod(cell) == ((cell[1] % 16) * 256) + cell[2]
\* line 331: (modData[2] >> 4) | (modData[0] & 0x10)
CellInstr(cell) == (cell[3] \div 16) + (((cell[1] \div 16) % 2) * 16)
\* line 335
CellEffect(cell) == cell[3] % 16

\* a cell of the input file with the given period, sample, effect and parameter
MkCell(per, ins, eff, par) ==
    << ((ins \div 16) * 16) + (per \div 256), per % 256, ((ins % 16) * 16) + eff, par >>

\* faulty variant: the default case of the inner switch keeps the low nibble
ExtendedCommandKeepLow(par) ==
    LET sub == par \div 16
        low == par % 16
    IN  CASE sub = 1  -> [command |-> 3,  param |-> low]
          [] sub = 2  -> [command |-> 4,  param |-> low]
          [] sub = 9  -> [command |-> 15, param |-> low]
          [] sub = 10 -> [command |-> 1,  param |-> low]
          [] sub = 11 -> [command |-> 2,  param |-> low]
          [] sub = 12 -> [command |-> 17, param |-> low]
          [] OTHER    -> [command |-> NoEffect, param |-> low]

\* lines 360-372: the extended command, keyed by the parameter's high nibble
ExtendedCommand(par) ==
    LET sub == par \div 16
        low == par % 16
    IN  CASE sub = 1  -> [command |-> 3,  param |-> low]
          [] sub = 2  -> [command |-> 4,  param |-> low]
          [] sub = 9  -> [command |-> 15, param |-> low]
          [] sub = 10 -> [command |-> 1,  param |-> low]
          [] sub = 11 -> [command |-> 2,  param |-> low]
          [] sub = 12 -> [command |-> 17, param |-> low]
          [] OTHER    -> [command |-> NoEffect, param |-> 0]

\* lines 332-377: command and parameter after the effect switch
Translate(eff, par) ==
    CASE eff = 0  -> [command |-> IF par # 0 THEN 11 ELSE NoEffect, param |-> par]
      [] eff = 1  -> [command |-> 12, param |-> par]
      [] eff = 2  -> [command |-> 13, param |-> par]
      [] eff = 3  -> [command |-> 7,  param |-> par]
      [] eff = 4  -> [command |-> 9,  param |-> par]
      [] eff = 5  -> [command |-> 8,  param |-> par]
      [] eff = 6  -> [command |-> 10, param |-> par]
      [] eff = 7  -> [command |-> 16, param |-> par]
      [] eff = 9  -> [command |-> 6,  param |-> par]
      [] eff = 10 -> [command |-> 14, param |-> par]
      [] eff = 11 -> [command |-> NoEffect, param |-> 0]
      [] eff = 12 -> [command |-> 0,  param |-> par]
      [] eff = 13 -> [command |-> NoEffect, param |-> 0]
      [] eff = 14 -> ExtendedCommand(par)
      [] eff = 15 -> [command |-> 18, param |-> par]
      [] OTHER    -> [command |-> NoEffect, param |-> 0]

\* the translated event of a cell: note, instrument, command, parameter
Event(cell) ==
    LET t == Translate(CellEffect(cell), cell[4])
    IN  [note |-> PeriodToNote(CellPeriod(cell)), instr |-> CellInstr(cell),
         command |-> t.command, param |-> t.param]

(***************************************************************************)
(* Header validation                                                       *)
(***************************************************************************)
\* lines 213-222: the channel count of a signature, 0 when it is not known
ChannelsOf(magic) ==
    CASE magic = "1CHN" -> 1
      [] magic = "2CHN" -> 2
      [] magic = "3CHN" -> 3
      [] magic = "M.K." -> 4
      [] OTHER          -> 0

\* faulty variant: the order count is checked before the signature
ExitCodeOrdersFirst(inOk, outOk, hdr) ==
    IF ~inOk THEN -1
    ELSE IF ~outOk THEN -2
    ELSE IF hdr.numOrders > MaxOrderCount THEN -4
    ELSE IF ChannelsOf(hdr.magic) = 0 THEN -3
    ELSE 0

\* lines 197-233: the value main() returns before the conversion starts,
\* 0 when every check passes
ExitCodeFor(inOk, outOk, hdr) ==
    IF ~inOk THEN -1
    ELSE IF ~outOk THEN -2
    ELSE IF ChannelsOf(hdr.magic) = 0 THEN -3
    ELSE IF hdr.numOrders > MaxOrderCount THEN -4
    ELSE 0

(***************************************************************************)
(* Pattern sequencer                                                       *)
(***************************************************************************)
\* lines 278-285
InitChannelState ==
    [note |-> Sentinel, instr |-> Sentinel, command |-> Sentinel, param |-> Sentinel,
     repeatOffset |-> 0]

IsJump(cell) == CellEffect(cell) = 11
IsBreak(cell) == CellEffect(cell) = 13
IsControl(cell) == IsJump(cell) \/ IsBreak(cell)

\* faulty variant: a position jump is taken in both directions
JumpOrdAlways(o, par) == par - 1

\* lines 348-349: the order variable after a position jump with parameter par
JumpOrd(o, par) == IF par > o THEN par - 1 ELSE o

\* faulty variant: the pattern break resumes at the row its parameter names
BreakStartRowParam(par) == ((par \div 16) * 10) + (par % 16)

\* lines 356-357: param = 0; startRow = param
BreakStartRow(par) == LET param == 0 IN param

\* faulty variant: a control effect ends the channel loop as well
NextChnBreak(c, cell) == IF IsControl(cell) THEN numChannels ELSE c + 1

\* line 301: chn++ ; the effect switch leaves the channel loop running
NextChn(c, cell) == c + 1

\* data with its 0-based byte i replaced by b
SetByte(data, i, b) == [data EXCEPT ![i + 1] = b]
\* x | 0x80 on a byte
OrFlag(b) == IF b >= RepeatFirst THEN b ELSE b + RepeatFirst

\* faulty variant: a saturated repeat count is incremented once more
HoldOverflow(st, data) ==
    IF st.repeatOffset # 0
    THEN [st |-> st,
          data |-> SetByte(data, st.repeatOffset, (data[st.repeatOffset + 1] + 1) % 256)]
    ELSE [st |-> [st EXCEPT !.repeatOffset = Len(data)],
          data |-> Append(data, RepeatFirst)]

\* lines 381-389: the hold branch
Hold(st, data) ==
    IF st.repeatOffset # 0 /\ data[st.repeatOffset + 1] < RepeatLast
    THEN [st |-> st,
          data |-> SetByte(data, st.repeatOffset, data[st.repeatOffset + 1] + 1)]
    ELSE [st |-> [st EXCEPT !.repeatOffset = Len(data)],
          data |-> Append(data, RepeatFirst)]

\* lines 392-397: musicData.back() |= 0x80 (the stream is never empty here)
Continuation(st, data) ==
    [st |-> [st EXCEPT !.repeatOffset = 0],
     data |-> IF Len(data) = 0 THEN data
              ELSE SetByte(data, Len(data) - 1, OrFlag(data[Len(data)]))]

\* faulty variant: a full event leaves the repeat offset of its channel
FullEventKeepRun(st, ev, data) ==
    [st |-> [note |-> ev.note, instr |-> ev.instr, command |-> ev.command,
             param |-> ev.param, repeatOffset |-> st.repeatOffset],
     data |-> data \o <<ev.note, ev.instr, ev.command, ev.param>>]

\* lines 392, 400-403: a full event
FullEvent(st, ev, data) ==
    [st |-> [note |-> ev.note, instr |-> ev.instr, command |-> ev.command,
             param |-> ev.param, repeatOffset |-> 0],
     data |-> data \o <<ev.note, ev.instr, ev.command, ev.param>>]

\* line 379
IsHold(st, ev) ==
    ev.note = st.note /\ ev.instr = st.instr /\ ev.command = st.command
        /\ ev.param = st.param
\* line 394, reached when line 379 is false
IsContinuation(st, ev) ==
    ~IsHold(st, ev) /\ ev.command = st.command /\ ev.param = st.param

\* faulty variant: a continuation cell becomes the note and instrument later
\* cells are compared with
EmitTrackNote(st, ev, data) ==
    IF IsHold(st, ev) THEN Hold(st, data)
    ELSE IF IsContinuation(st, ev)
         THEN [st |-> [Continuation(st, data).st EXCEPT !.note = ev.note,
                                                         !.instr = ev.instr],
               data |-> Continuation(st, data).data]
    ELSE FullEvent(st, ev, data)

\* lines 379-403: classification of a translated event against the channel
Emit(st, ev, data) ==
    IF IsHold(st, ev) THEN Hold(st, data)
    ELSE IF IsContinuation(st, ev) THEN Continuation(st, data)
    ELSE FullEvent(st, ev, data)

\* faulty variant: every order from the restart position on takes the offset
IsRestartFrom(o) == modHeader.restartPos <= o

\* line 295
IsRestart(o) == modHeader.restartPos = o

\* static_cast<uint32_t> of a size: the stream holds at most 5 bytes per cell
\* of 128 orders of 64 rows of 4 channels, so the cast never wraps
ToUint32(n) == n

\* line 296
RestartCapture(km, data) == [km EXCEPT !.restartPos = ToUint32(Len(data))]

NoCtl == [brk |-> FALSE, jump |-> -1, chn |-> -1]

\* the cells Read(fIn, modData) can deliver for the current channel (line 306)
ReadChoices == {fill[chn]} \cup (IF row \in free THEN cells ELSE {})

\* lines 298-301 and 405: the loop variables after the cell of channel c
\* has been handled, given what the effect switch left in ord, startRow and row
Advance(cell, ordA, startRowA, rowA) ==
    LET chnA == NextChn(chn, cell)
    IN  IF chnA < numChannels
        THEN /\ chn' = chnA
             /\ row' = rowA
             /\ ord' = ordA
             /\ startRow' = startRowA
             /\ pc' = "cell"
        ELSE IF rowA + 1 < NumRows
        THEN /\ chn' = 0
             /\ row' = rowA + 1
             /\ ord' = ordA
             /\ startRow' = 0
             /\ pc' = "cell"
        ELSE /\ chn' = chnA
             /\ row' = rowA + 1
             /\ ord' = ordA + 1
             /\ startRow' = startRowA
             /\ pc' = "ord"

\* lines 197-233, a check fails: main() returns its error code
Reject ==
    /\ pc = "start"
    /\ ExitCodeFor(inputOk, outputOk, modHeader) # 0
    /\ exitCode' = ExitCodeFor(inputOk, outputOk, modHeader)
    /\ pc' = "exit"
    /\ UNCHANGED <<inputOk, outputOk, modHeader, numChannels, ord, row, chn, startRow,
                   channelState, musicData, kmSong, outBytes, period, note, fill,
                   free, cells, playOrd, cellPos, holdRun, ctl, restartSets, lastKind,
                   lastEvent>>
    /\ UNCHANGED auxVars

\* lines 197-290, every check passes: the state the order loop starts from
Accept ==
    /\ pc = "start"
    /\ ExitCodeFor(inputOk, outputOk, modHeader) = 0
    /\ numChannels' = ChannelsOf(modHeader.magic)
    /\ channelState' = [c \in 0..(ChannelsOf(modHeader.magic) - 1) |-> InitChannelState]
    /\ holdRun' = [c \in 0..(ChannelsOf(modHeader.magic) - 1) |-> -1]
    /\ musicData' = <<>>
    /\ startRow' = 0
    /\ ord' = 0
    /\ pc' = "ord"
    /\ UNCHANGED <<exitCode, inputOk, outputOk, modHeader, row, chn, kmSong, outBytes,
                   period, note, fill, free, cells, playOrd, cellPos, ctl, restartSets,
                   lastKind, lastEvent>>
    /\ UNCHANGED auxVars

\* lines 291-300: an order begins: seek, restart offset, first row
BeginOrder ==
    /\ pc = "ord"
    /\ ord < modHeader.numOrders
    /\ playOrd' = ord
    /\ cellPos' = 0
    /\ ctl' = NoCtl
    /\ kmSong' = IF IsRestart(ord) THEN RestartCapture(kmSong, musicData) ELSE kmSong
    /\ restartSets' = IF IsRestart(ord) THEN restartSets + 1 ELSE restartSets
    /\ row' = startRow
    /\ IF startRow < NumRows
       THEN /\ startRow' = 0
            /\ chn' = 0
            /\ ord' = ord
            /\ pc' = "cell"
       ELSE /\ ord' = ord + 1
            /\ UNCHANGED <<startRow, chn, pc>>
    /\ UNCHANGED <<exitCode, inputOk, outputOk, modHeader, numChannels, channelState,
                   musicData, outBytes, period, note, fill, free, cells, holdRun,
                   lastKind, lastEvent>>
    /\ UNCHANGED auxVars

\* faulty variant: one ChannelState shared by all channels
UpdateShared(states, c, st) == [d \in DOMAIN states |-> st]

\* line 303: chnState is a reference to channelState[chn], so the
\* assignments of lines 384-403 reach that element alone
UpdateChannel(states, c, st) == [states EXCEPT ![c] = st]

\* faulty variant: a cell with a position jump or a pattern break is not
\* classified
ClassifySkipControl(cell, st, data) ==
    IF IsControl(cell) THEN [st |-> st, data |-> data] ELSE Emit(st, Event(cell), data)

\* lines 308-403: the cell is translated and classified against the state
\* of its channel, whatever its effect is
Classify(cell, st, data) == Emit(st, Event(cell), data)

\* lines 301-404: one cell of the current row
ProcessCell ==
    /\ pc = "cell"
    /\ \E modData \in ReadChoices :
         LET ev == Event(modData)
             st == channelState[chn]
             out == Classify(modData, st, musicData)
             par == modData[4]
             ordA == IF IsJump(modData) THEN JumpOrd(ord, par) ELSE ord
             startRowA == IF IsJump(modData) THEN 0
                          ELSE IF IsBreak(modData) THEN BreakStartRow(par)
                          ELSE startRow
             rowA == IF IsControl(modData) THEN NumRows ELSE row
         IN  /\ channelState' = UpdateChannel(channelState, chn, out.st)
             /\ musicData' = out.data
             /\ Advance(modData, ordA, startRowA, rowA)
             /\ fill' = [fill EXCEPT ![chn] = modData]
             /\ free' = IF modData # fill[chn] THEN {} ELSE free
             /\ cellPos' = cellPos + 1
             /\ holdRun' = [holdRun EXCEPT ![chn] =
                               IF IsHold(st, ev) THEN (IF @ >= 0 THEN @ + 1 ELSE @)
                               ELSE IF IsContinuation(st, ev) THEN -1
                               ELSE 0]
             /\ ctl' = IF IsControl(modData)
                       THEN [brk |-> ctl.brk \/ IsBreak(modData),
                             jump |-> IF IsJump(modData) /\ par > ctl.jump
                                      THEN par ELSE ctl.jump,
                             chn |-> IF ctl.chn = -1 THEN chn ELSE ctl.chn]
                       ELSE ctl
             /\ lastKind' = IF IsHold(st, ev) THEN "hold"
                            ELSE IF IsContinuation(st, ev) THEN "flag"
                            ELSE "event"
             /\ lastEvent' = IF IsHold(st, ev) \/ IsContinuation(st, ev)
                             THEN lastEvent ELSE Len(musicData)
    /\ UNCHANGED <<exitCode, inputOk, outputOk, modHeader, numChannels, kmSong,
                   outBytes, period, note, cells, playOrd, restartSets>>
    /\ UNCHANGED auxVars

\* faulty variant: the two size fields are exchanged
SongSizesSwapped(km, data) ==
    [km EXCEPT !.chunkSize = ToUint32(Len(data)),
               !.musicSize = ToUint32(SongHeaderSize + Len(data))]

\* lines 408-409
SongSizes(km, data) ==
    [km EXCEPT !.chunkSize = ToUint32(SongHeaderSize + Len(data)),
               !.musicSize = ToUint32(Len(data))]

\* lines 408-416: the order loop is over; the song header and the stream are
\* written, fIn is set to the sample data
WriteSong ==
    /\ pc = "ord"
    /\ ~(ord < modHeader.numOrders)
    /\ kmSong' = SongSizes(kmSong, musicData)
    /\ outBytes' = outBytes + SongHeaderSize + Len(musicData)
    /\ smp' = 0
    /\ srcPos' = 0
    /\ pc' = "sample"
    /\ UNCHANGED <<exitCode, inputOk, outputOk, modHeader, numChannels, ord, row, chn,
                   startRow, channelState, musicData, period, note, fill, free, cells,
                   playOrd, cellPos, holdRun, ctl, restartSets, lastKind, lastEvent,
                   effectIn, effectOut, samples, modSample, kmSample, declared, chunks>>

\* lines 308-330 on their own: the resolver applied to a period
ResolveNote ==
    /\ pc = "note"
    /\ note' = PeriodToNote(period)
    /\ pc' = "exit"
    /\ UNCHANGED <<exitCode, inputOk, outputOk, modHeader, numChannels, ord, row, chn,
                   startRow, channelState, musicData, kmSong, outBytes, period, fill,
                   free, cells, playOrd, cellPos, holdRun, ctl, restartSets, lastKind,
                   lastEvent>>
    /\ UNCHANGED auxVars

\* lines 332-377: the effect switch alone, on the cell effectIn
TranslateEffect ==
    /\ pc = "effect"
    /\ effectOut' = Translate(CellEffect(effectIn), effectIn[4])
    /\ pc' = "exit"
    /\ UNCHANGED <<exitCode, inputOk, outputOk, modHeader, numChannels, ord, row, chn,
                   startRow, channelState, musicData, kmSong, outBytes, period, note,
                   fill, free, cells, playOrd, cellPos, holdRun, ctl, restartSets,
                   lastKind, lastEvent, effectIn, samples, smp, modSample, kmSample,
                   srcPos, declared, chunks>>

\* lines 425-434: loop start, sample size and chunk size of a sample header
KmSampleOf(ms) ==
    IF ms.loopLength > 1 /\ ms.loopStart < ms.length
       /\ (ms.loopStart + ms.loopLength + ms.length) # 0
    THEN [loopStart |-> ms.loopStart * 2,
          sampleSize |-> (ms.loopStart * 2) + (ms.loopLength * 2),
          chunkSize |-> SampleHeaderSize + (ms.loopStart * 2) + (ms.loopLength * 2)]
    ELSE [loopStart |-> ms.length * 2,
          sampleSize |-> ms.length * 2,
          chunkSize |-> SampleHeaderSize + (ms.length * 2)]

\* the sample headers a slot of the input file is drawn from: a slot of one
\* word, a sample without loop, a sample whose loop ends before its end and
\* a sample looped as a whole
SampleChoices ==
    { [length |-> 1,   loopStart |-> 0,  loopLength |-> 1],
      [length |-> 100, loopStart |-> 0,  loopLength |-> 1],
      [length |-> 100, loopStart |-> 20, loopLength |-> 30],
      [length |-> 100, loopStart |-> 0,  loopLength |-> 100] }

\* lines 416-441: one slot of the sample loop
ConvertSample ==
    /\ pc = "sample"
    /\ smp < NumSamples
    /\ \E ms \in samples :
         /\ modSample' = ms
         /\ kmSample' = KmSampleOf(ms)
         /\ srcPos' = srcPos + KmSampleOf(ms).sampleSize
         /\ declared' = declared + (2 * ms.length)
         /\ outBytes' = IF ms.length < 2 THEN outBytes
                        ELSE outBytes + KmSampleOf(ms).chunkSize
         /\ chunks' = IF ms.length < 2 THEN chunks ELSE chunks + 1
    /\ smp' = smp + 1
    /\ UNCHANGED <<pc, exitCode, inputOk, outputOk, modHeader, numChannels, ord, row,
                   chn, startRow, channelState, musicData, kmSong, period, note,
                   fill, free, cells, playOrd, cellPos, holdRun, ctl, restartSets,
                   lastKind, lastEvent, effectIn, effectOut, samples>>

\* lines 416 and 444: the sample loop is over, main() returns 0
FinishSamples ==
    /\ pc = "sample"
    /\ ~(smp < NumSamples)
    /\ exitCode' = 0
    /\ pc' = "exit"
    /\ UNCHANGED <<inputOk, outputOk, modHeader, numChannels, ord, row, chn, startRow,
                   channelState, musicData, kmSong, outBytes, period, note, fill,
                   free, cells, playOrd, cellPos, holdRun, ctl, restartSets, lastKind,
                   lastEvent, effectIn, effectOut, samples, smp, modSample, kmSample,
                   srcPos, declared, chunks>>

(***************************************************************************)
(* Inputs                                                                  *)
(***************************************************************************)
EmptyCell == MkCell(0, 0, 0, 0)
NoteCell == MkCell(428, 1, 12, 32)
OtherNoteCell == MkCell(404, 1, 12, 32)
BreakCell == MkCell(0, 0, 13, 16)
JumpCell(p) == MkCell(0, 0, 11, p)

\* the effect switch and the sample loop before main() reaches them; the
\* sample slots of the file are empty
NoSample == [length |-> 0, loopStart |-> 0, loopLength |-> 0]

AuxInit ==
    /\ effectIn = EmptyCell
    /\ effectOut = [command |-> 0, param |-> 0]
    /\ samples = {NoSample}
    /\ smp = 0
    /\ modSample = NoSample
    /\ kmSample = [loopStart |-> 0, sampleSize |-> 0, chunkSize |-> 0]
    /\ srcPos = 0
    /\ declared = 0
    /\ chunks = 0

\* rows in which a column may change its cell
FreeRows == {0, 1, NumRows - 1}

\* the state main() starts in for a header, a cell set and columns of it
InitWith(inOk, outOk, hdr, cellSet, columns, freeRows) ==
    /\ pc = "start"
    /\ exitCode = 0
    /\ inputOk = inOk
    /\ outputOk = outOk
    /\ modHeader = hdr
    /\ numChannels = 0
    /\ ord = 0
    /\ row = 0
    /\ chn = 0
    /\ startRow = 0
    /\ channelState = << >>
    /\ musicData = << >>
    /\ kmSong = [restartPos |-> 0, musicSize |-> 0, chunkSize |-> 0]
    /\ outBytes = 0
    /\ period = 0
    /\ note = 0
    /\ cells = cellSet
    /\ fill = columns
    /\ free = freeRows
    /\ playOrd = -1
    /\ cellPos = 0
    /\ holdRun = << >>
    /\ ctl = NoCtl
    /\ restartSets = 0
    /\ lastKind = "none"
    /\ lastEvent = -1
    /\ AuxInit

\* inputs main() rejects
InitRejected ==
    \E inOk \in BOOLEAN, outOk \in BOOLEAN, m \in {"1CHN", "M.K.", "FLT4"},
       n \in {0, MaxOrderCount, MaxOrderCount + 1, 255} :
        /\ ExitCodeFor(inOk, outOk, [magic |-> m, numOrders |-> n, restartPos |-> 0]) # 0
        /\ InitWith(inOk, outOk, [magic |-> m, numOrders |-> n, restartPos |-> 0],
                    {EmptyCell}, << >>, {})

\* the headers of the valid inputs with the signature m
Headers(m, restarts) ==
    {[magic |-> m, numOrders |-> n, restartPos |-> r] : n \in 0..MaxOrders, r \in restarts}

NoteCells == {EmptyCell, NoteCell, OtherNoteCell}
ControlCells == {BreakCell, JumpCell(0), JumpCell(1), JumpCell(2), JumpCell(3), JumpCell(255)}

\* valid inputs of 1 channel without control effects: a column of one cell,
\* changed at most once
InitOneChannel ==
    \E hdr \in Headers("1CHN", {0, 1, 2, 127}), c \in NoteCells, f \in {{}, FreeRows} :
        InitWith(TRUE, TRUE, hdr, NoteCells, [ch \in {0} |-> c], f)

\* valid inputs of 1 channel with pattern breaks and position jumps
InitOneChannelControl ==
    \E hdr \in Headers("1CHN", {0, 1, 2, 127}),
       c \in {EmptyCell} \cup ControlCells, f \in {{}, FreeRows} :
        InitWith(TRUE, TRUE, hdr, {EmptyCell, NoteCell} \cup ControlCells,
                 [ch \in {0} |-> c], f)

\* valid inputs of 2 channels: every pair of columns, one changed at most once
InitTwoChannels ==
    \E hdr \in Headers("2CHN", {1}), f \in {{}, {0, 1}} :
        LET cellSet == {EmptyCell, NoteCell, BreakCell, JumpCell(2)}
        IN  \E columns \in [0..1 -> cellSet] :
                InitWith(TRUE, TRUE, hdr, cellSet, columns, f)

\* valid inputs of 3 and 4 channels: empty columns, one changed at most once
InitMoreChannels ==
    \E m \in {"3CHN", "M.K."}, f \in {{}, {1}} :
      \E hdr \in Headers(m, {1}) :
        InitWith(TRUE, TRUE, hdr, {EmptyCell, OtherNoteCell, BreakCell, JumpCell(2)},
                 [ch \in 0..(ChannelsOf(m) - 1) |-> EmptyCell], f)

Init ==
    InitRejected \/ InitOneChannel \/ InitOneChannelControl \/ InitTwoChannels
        \/ InitMoreChannels

Next ==
    \/ Reject \/ Accept \/ BeginOrder \/ ProcessCell \/ WriteSong
    \/ ConvertSample \/ FinishSamples

Spec == Init /\ [][Next]_vars

\* the resolver on its own: every 12-bit period
InitNote ==
    /\ pc = "note"
    /\ period \in 0..4095
    /\ note = 0
    /\ exitCode = 0
    /\ inputOk = TRUE
    /\ outputOk = TRUE
    /\ modHeader = [magic |-> "1CHN", numOrders |-> 0, restartPos |-> 0]
    /\ numChannels = 0
    /\ ord = 0
    /\ row = 0
    /\ chn = 0
    /\ startRow = 0
    /\ channelState = << >>
    /\ musicData = << >>
    /\ kmSong = [restartPos |-> 0, musicSize |-> 0, chunkSize |-> 0]
    /\ outBytes = 0
    /\ cells = {}
    /\ fill = << >>
    /\ free = {}
    /\ playOrd = -1
    /\ cellPos = 0
    /\ holdRun = << >>
    /\ ctl = NoCtl
    /\ restartSets = 0
    /\ lastKind = "none"
    /\ lastEvent = -1
    /\ AuxInit

NextNote == ResolveNote

SpecNote == InitNote /\ [][NextNote]_vars

\* the one-channel file of one order whose pattern has the cell of period 428,
\* sample 1, effect 0xC, parameter 0x20 in row 0; from row 1 on the column
\* goes on with that cell, with empty cells or with the cell of period 404
InitExample ==
    \E r \in {0, 127} :
       InitWith(TRUE, TRUE, [magic |-> "1CHN", numOrders |-> 1, restartPos |-> r],
                {EmptyCell, OtherNoteCell}, [c \in {0} |-> NoteCell], {1})

NextExample ==
    \/ Accept \/ BeginOrder \/ ProcessCell \/ WriteSong
    \/ ConvertSample \/ FinishSamples

SpecExample == InitExample /\ [][NextExample]_vars

\* main() outside the order loop: the variables of the loop at rest
InitIdle ==
    /\ exitCode = 0
    /\ inputOk = TRUE
    /\ outputOk = TRUE
    /\ modHeader = [magic |-> "1CHN", numOrders |-> 0, restartPos |-> 0]
    /\ numChannels = 1
    /\ ord = 0
    /\ row = 0
    /\ chn = 0
    /\ startRow = 0
    /\ channelState = << >>
    /\ musicData = << >>
    /\ kmSong = [restartPos |-> 0, musicSize |-> 0, chunkSize |-> 0]
    /\ outBytes = 0
    /\ period = 0
    /\ note = 0
    /\ cells = {}
    /\ fill = << >>
    /\ free = {}
    /\ playOrd = -1
    /\ cellPos = 0
    /\ holdRun = << >>
    /\ ctl = NoCtl
    /\ restartSets = 0
    /\ lastKind = "none"
    /\ lastEvent = -1

\* lines 332-377 applied to every effect nibble and every parameter byte
InitEffect ==
    /\ pc = "effect"
    /\ InitIdle
    /\ \E eff \in 0..15, par \in 0..255 : effectIn = MkCell(0, 0, eff, par)
    /\ effectOut = [command |-> 0, param |-> 0]
    /\ samples = {NoSample}
    /\ smp = 0
    /\ modSample = NoSample
    /\ kmSample = [loopStart |-> 0, sampleSize |-> 0, chunkSize |-> 0]
    /\ srcPos = 0
    /\ declared = 0
    /\ chunks = 0

NextEffect == TranslateEffect

SpecEffect == InitEffect /\ [][NextEffect]_vars

\* lines 414-444 after the song of an empty order list was written: fIn is at
\* the end of the pattern data; outBytes counts the bytes of the SMPL chunks
InitSamples ==
    /\ pc = "sample"
    /\ InitIdle
    /\ effectIn = EmptyCell
    /\ effectOut = [command |-> 0, param |-> 0]
    /\ samples = SampleChoices
    /\ smp = 0
    /\ modSample = NoSample
    /\ kmSample = [loopStart |-> 0, sampleSize |-> 0, chunkSize |-> 0]
    /\ srcPos = 0
    /\ declared = 0
    /\ chunks = 0

NextSamples == ConvertSample \/ FinishSamples

SpecSamples == InitSamples /\ [][NextSamples]_vars

\* the inputs with control effects. Every step of main() is eventually
\* taken: the program is sequential and nothing in it waits
InitControl ==
    \/ InitRejected
    \/ \E m \in {"1CHN", "2CHN"}, n \in 0..MaxOrders, f \in {{}, {0, 1}} :
         \E columns \in [0..(ChannelsOf(m) - 1) -> {EmptyCell} \cup ControlCells] :
            InitWith(TRUE, TRUE, [magic |-> m, numOrders |-> n, restartPos |-> 0],
                     {EmptyCell} \cup ControlCells, columns, f)
    \/ \E m \in {"3CHN", "M.K."}, n \in 0..MaxOrders :
         \E columns \in [0..(ChannelsOf(m) - 1) ->
                           {EmptyCell, BreakCell, JumpCell(0), JumpCell(2)}] :
            InitWith(TRUE, TRUE, [magic |-> m, numOrders |-> n, restartPos |-> 0],
                     {EmptyCell}, columns, {})

FairSpec == InitControl /\ [][Next]_vars /\ WF_vars(Next)

(***************************************************************************)
(* Properties                                                              *)
(***************************************************************************)
\* the four bytes of the stream at the 0-based offset i
EventAt(i) == [note |-> musicData[i + 1], instr |-> musicData[i + 2],
               command |-> musicData[i + 3], param |-> musicData[i + 4]]
\* the four last-emitted fields of a channel state
Emitted(st) == [note |-> st.note, instr |-> st.instr, command |-> st.command,
                param |-> st.param]

\* C1: in a 1-channel conversion, a full event followed by k >= 1 identical
\* cells ends the stream with that event and its repeat-count bytes: one
\* count byte 0x80 + k - 1 for k <= 128, and for larger k a saturated byte
\* 0xFF per 128 repeats followed by a fresh byte counted from 0x80, whose
\* offset is the channel's repeat offset.
C1_HoldRun ==
    (numChannels = 1 /\ holdRun[0] >= 1) =>
        LET k == holdRun[0]
            full == (k - 1) \div 128
            len == Len(musicData)
            ev == len - (full + 1) - 4
        IN  /\ ev >= 0
            /\ ev = lastEvent
            /\ EventAt(ev) = Emitted(channelState[0])
            /\ \A j \in 1..full : musicData[ev + 4 + j] = RepeatLast
            /\ musicData[len] = RepeatFirst + ((k - 1) % 128)
            /\ channelState[0].repeatOffset = len - 1

\* C1 witness: the 129th repeat has opened a second count byte
C1_Witness ==
    /\ numChannels = 1
    /\ holdRun[0] = 129
    /\ Len(musicData) = 6
    /\ musicData[5] = RepeatLast
    /\ musicData[6] = RepeatFirst

\* a step that processes one cell (of the channel chn of the state it leaves)
CellStep == pc = "cell" /\ cellPos' = cellPos + 1
\* the cell such a step read
CellRead == fill'[chn]

\* C2: a continuation cell ORs the flag 0x80 into the command byte of the
\* most recently emitted 4-byte event and appends nothing; and a byte of the
\* stream changes only by a repeat-count increment or by that flag being
\* ORed into a command byte.
C2_FlagInCommand ==
    /\ [][(CellStep /\ lastKind' = "flag") =>
            musicData' = SetByte(musicData, lastEvent + 2,
                                 OrFlag(musicData[lastEvent + 3]))]_vars
    /\ [][\A i \in 1..Len(musicData) :
            musicData'[i] # musicData[i] =>
                \/ /\ lastKind' = "hold"
                   /\ i = channelState[chn].repeatOffset + 1
                   /\ musicData'[i] = musicData[i] + 1
                \/ /\ lastKind' = "flag"
                   /\ i = lastEvent + 3
                   /\ musicData'[i] = OrFlag(musicData[i])]_vars

\* C3 as claimed: once a control cell was processed in a row, the cells of
\* the later channels of that row change neither a channel state nor the
\* stream.
C3_RowAbandoned ==
    [][(pc = "cell" /\ ctl.chn # -1) =>
         (channelState' = channelState /\ musicData' = musicData)]_vars

\* C3 as amended: after a position-jump or pattern-break cell on a channel,
\* the cells of the later channels of that row are still read and classified
\* against their channel like any other cell, so the cells of an order are
\* consumed in whole rows; only the later rows of the order are dropped.
C3_RowCompleted ==
    /\ [][(pc = "cell" /\ ctl.chn # -1) =>
            /\ CellStep
            /\ chn > ctl.chn
            /\ (pc' = "cell" /\ chn' = chn + 1) \/ (pc' = "ord" /\ chn + 1 = numChannels)
            /\ playOrd' = playOrd
            /\ channelState'[chn] = Emit(channelState[chn], Event(CellRead), musicData).st
            /\ musicData' = Emit(channelState[chn], Event(CellRead), musicData).data
            /\ row' >= NumRows]_vars
    /\ [](pc = "ord" /\ playOrd >= 0 => cellPos > 0 /\ cellPos % numChannels = 0)

\* C3 witness: a row of 2 or more channels is over, its first channel held
\* a control cell and a later channel appended a full event after it
C3_Witness ==
    /\ pc = "ord"
    /\ numChannels >= 2
    /\ ctl.chn = 0
    /\ lastKind = "event"
    /\ cellPos = numChannels
    /\ lastEvent = Len(musicData) - 4

\* C4 as claimed: after a position jump with parameter P the next order is P.
C4_JumpToParam == (pc = "ord" /\ ctl.jump # -1) => ord = ctl.jump

\* C4 as amended: a position jump with parameter P, processed while order o
\* is current, ends the rows of order o; the next order is P when P > o and
\* o + 1 when P <= o (with several jumps in the row, the largest parameter
\* counts), and the conversion ends when that index is not below the order
\* count.
C4_JumpForward ==
    /\ (ctl.jump # -1 /\ pc \in {"cell", "ord"}) => row >= NumRows
    /\ (pc = "ord" /\ ctl.jump # -1) =>
          /\ ord = (IF ctl.jump > playOrd THEN ctl.jump ELSE playOrd + 1)
          /\ startRow = 0
    /\ (pc = "exit" /\ exitCode = 0 /\ ctl.jump # -1) =>
          (IF ctl.jump > playOrd THEN ctl.jump ELSE playOrd + 1) >= modHeader.numOrders

\* C4 witnesses: a jump that skips an order, and a jump that is not taken
C4_WitnessSkip ==
    pc = "ord" /\ playOrd = 0 /\ ctl.jump = 2 /\ ord = 2 /\ modHeader.numOrders = 3
C4_Witness ==
    pc = "ord" /\ playOrd = 1 /\ ctl.jump = 0 /\ ord = 2 /\ modHeader.numOrders = 3

\* C5 as claimed: after a pattern break in order o the next order is o + 1,
\* started at row 0.
C5_BreakToNext == (pc = "ord" /\ ctl.brk) => (ord = playOrd + 1 /\ startRow = 0)

\* C5 as amended: a pattern break, whatever its parameter, ends the rows of
\* order o and takes parameter 0; the next order starts at row 0 and is
\* o + 1, unless a position jump of the same row names a later order.
C5_BreakRowZero ==
    /\ [](ctl.brk /\ pc \in {"cell", "ord"} => row >= NumRows)
    /\ [](pc = "ord" /\ ctl.brk =>
            /\ startRow = 0
            /\ ord = (IF ctl.jump > playOrd THEN ctl.jump ELSE playOrd + 1))
    /\ [][(pc = "ord" /\ ctl.brk /\ pc' = "cell") =>
            (row' = 0 /\ playOrd' = ord /\ cellPos' = 0)]_vars
    /\ [][(CellStep /\ IsBreak(CellRead)) =>
            /\ Event(CellRead).param = 0
            /\ lastKind' = "event" =>
                 (channelState'[chn].param = 0 /\ channelState'[chn].command = NoEffect)]_vars

\* C5 witness: order 1 has begun at row 0 after a break with parameter 0x10
\* in a row of order 0 that is not its first
C5_Witness ==
    /\ pc = "cell"
    /\ playOrd = 1
    /\ row = 0
    /\ cellPos = 0
    /\ numChannels = 1
    /\ fill[0] = BreakCell
    /\ free = {}
    /\ holdRun[0] = 1

\* C6 as claimed: the restart offset is assigned exactly once in every
\* conversion.
C6_AssignedOnce == (pc = "exit" /\ exitCode = 0) => restartSets = 1

\* C6 as amended: the restart offset is assigned at most once. When order K,
\* the restart position, is processed, it is assigned as that order begins,
\* before a cell of it is read, with the stream length the earlier orders
\* produced; when order K is never processed (K is not below the order count,
\* or a position jump skips it) it is never assigned and stays 0.
C6_RestartCapture ==
    /\ [](restartSets <= 1)
    /\ [](restartSets = 0 => kmSong.restartPos = 0)
    /\ [](restartSets = 1 => (/\ playOrd >= modHeader.restartPos
                               /\ modHeader.restartPos < modHeader.numOrders
                               /\ kmSong.restartPos <= Len(musicData)))
    /\ []((pc = "exit" /\ modHeader.restartPos >= modHeader.numOrders) => restartSets = 0)
    /\ [][(pc = "ord" /\ pc' = "cell" /\ ord = modHeader.restartPos) =>
            /\ restartSets' = 1
            /\ kmSong'.restartPos = Len(musicData)
            /\ cellPos' = 0
            /\ musicData' = musicData]_vars
    /\ [][~(pc = "ord" /\ pc' = "cell" /\ ord = modHeader.restartPos) =>
            (kmSong'.restartPos = kmSong.restartPos /\ restartSets' = restartSets)]_vars

\* C6 witness: order 1 is the restart position, and the conversion ended
\* with the offset the first order left
C6_Witness ==
    /\ pc = "exit"
    /\ exitCode = 0
    /\ modHeader.restartPos = 1
    /\ restartSets = 1
    /\ kmSong.restartPos = 5
    /\ Len(musicData) > 5

\* C7: the stream never gets shorter, whatever branch a cell takes, and the
\* music-size field of the song header is the final stream length.
C7_Monotonic ==
    /\ [][Len(musicData') >= Len(musicData)]_vars
    /\ [][CellStep =>
            Len(musicData') = Len(musicData) + (IF lastKind' = "event" THEN 4
                                                ELSE IF lastKind' = "flag" THEN 0
                                                ELSE IF channelState'[chn].repeatOffset
                                                          = Len(musicData)
                                                     THEN 1 ELSE 0)]_vars
    /\ [](pc = "exit" /\ exitCode = 0 =>
            (kmSong.musicSize = Len(musicData)
               /\ kmSong.chunkSize = SongHeaderSize + Len(musicData)
               /\ outBytes = SongHeaderSize + Len(musicData)))

\* C7 witness: a conversion that took all four kinds of step has ended
C7_Witness ==
    /\ pc = "exit"
    /\ exitCode = 0
    /\ lastKind = "flag"
    /\ Len(musicData) = 5
    /\ musicData[5] > RepeatFirst
    /\ kmSong.musicSize = 5

\* C8: an unknown signature or an order count above 128 ends main() with an
\* error code before a cell is read and before a byte is written; each of the
\* four error codes names one cause (-1 input, -2 output, -3 signature,
\* -4 order count), so they are distinct and nonzero, and a bad signature
\* goes before a bad order count.
C8_FatalValidation ==
    LET badMagic == ChannelsOf(modHeader.magic) = 0
        badOrders == modHeader.numOrders > MaxOrderCount
    IN  /\ (badMagic \/ badOrders \/ ~inputOk \/ ~outputOk) =>
              /\ pc \in {"start", "exit"}
              /\ outBytes = 0
              /\ cellPos = 0
              /\ playOrd = -1
              /\ musicData = << >>
        /\ pc = "exit" =>
              /\ exitCode \in {0, -1, -2, -3, -4}
              /\ exitCode = -1 <=> ~inputOk
              /\ exitCode = -2 <=> (inputOk /\ ~outputOk)
              /\ exitCode = -3 <=> (inputOk /\ outputOk /\ badMagic)
              /\ exitCode = -4 <=> (inputOk /\ outputOk /\ ~badMagic /\ badOrders)
        /\ (pc = "exit" /\ exitCode # 0) => outBytes = 0

\* C8 witness: both the signature and the order count are bad
C8_Witness ==
    /\ pc = "exit"
    /\ exitCode = -3
    /\ modHeader.numOrders > MaxOrderCount
    /\ outBytes = 0

\* C9: the conversion of a valid input ends; the order index grows from one
\* processed order to the next, so no order is processed twice and no more
\* than the declared number of orders is processed.
C9_Terminates ==
    /\ <>(pc = "exit")
    /\ [][(pc = "ord" /\ pc' = "cell") => (ord > playOrd /\ playOrd' = ord)]_vars
    /\ [](playOrd < modHeader.numOrders \/ pc = "start")
    /\ [][playOrd' >= playOrd]_vars

\* C9 witness: a conversion with a position jump not taken (target 0 from
\* order 1) has ended
C9_Witness ==
    /\ pc = "exit"
    /\ exitCode = 0
    /\ playOrd = 2
    /\ ctl.jump = 0

Abs(x) == IF x < 0 THEN -x ELSE x

\* C10: periods 0 and 0xFFF resolve to 0; every other period resolves to
\* i + 1 for a table entry i at minimal distance, the smaller period on a tie.
C10_Nearest ==
    (pc = "exit" /\ cells = {}) =>
        IF period = 0 \/ period = NoPeriod THEN note = 0
        ELSE \E i \in 0..35 :
               /\ note = i + 1
               /\ \A j \in 0..35 : Abs(Table(i) - period) <= Abs(Table(j) - period)
               /\ \A j \in 0..35 : Abs(Table(i) - period) = Abs(Table(j) - period)
                                     => Table(i) <= Table(j)

\* C11: a period that equals the table entry i resolves to note i + 1, so
\* the 36 table periods resolve to the 36 notes 1..36, each once.
C11_ExactMatch ==
    (pc = "exit" /\ cells = {}) =>
        /\ \A i \in 0..35 : period = Table(i) => note = i + 1
        /\ (\E i \in 0..35 : period = Table(i)) =>
              /\ note \in 1..36
              /\ \A j \in 0..35 : Table(j) # period => PeriodToNote(Table(j)) # note
        /\ \A n \in 1..36 : PeriodToNote(Table(n - 1)) = n

\* C11 witness: the last table entry, period 113, has resolved to note 36
C11_Witness == pc = "exit" /\ cells = {} /\ period = Table(35) /\ note = 36

\* the extended sub-commands the inner switch has a case for
RecognisedSubs == {1, 2, 9, 10, 11, 12}

\* C12: arpeggio with parameter 0, effect 0x8 and an extended command with an
\* unrecognised sub-command become command 0x14 with parameter 0; arpeggio
\* with a nonzero parameter becomes 0x0B with the parameter unchanged; the six
\* recognised sub-commands get six different codes and the parameter's low
\* nibble.
C12_DegradeCases ==
    pc = "exit" =>
        LET eff == CellEffect(effectIn)
            par == effectIn[4]
            sub == par \div 16
        IN  /\ ((eff = 0 /\ par = 0) \/ eff = 8 \/ (eff = 14 /\ sub \notin RecognisedSubs))
                  => effectOut = [command |-> NoEffect, param |-> 0]
            /\ (eff = 0 /\ par # 0) => effectOut = [command |-> 11, param |-> par]
            /\ (eff = 14 /\ sub \in RecognisedSubs) =>
                  /\ effectOut.param = par % 16
                  /\ effectOut.command # NoEffect
                  /\ \A q \in 0..255 :
                        (q \div 16 \in RecognisedSubs /\ q \div 16 # sub)
                            => Translate(14, q).command # effectOut.command

\* C12 witness: the extended command 0xE with parameter 0xC5 has become
\* command 0x11 with parameter 5
C12_Witness ==
    /\ pc = "exit"
    /\ CellEffect(effectIn) = 14
    /\ effectIn[4] = 197
    /\ effectOut = [command |-> 17, param |-> 5]

\* C13: the step that processes a cell of channel chn leaves the note,
\* instrument, command, parameter and repeat offset of every other channel
\* as they were.
C13_ChannelIndependence ==
    [][CellStep =>
          \A c \in 0..(numChannels - 1) :
             c # chn => channelState'[c] = channelState[c]]_vars

\* C13 witness: in a file of three or more channels a full event was just
\* appended for channel 1, whose state now differs from the states of
\* channels 0 and 2
C13_Witness ==
    /\ numChannels >= 3
    /\ pc = "cell"
    /\ chn = 2
    /\ lastKind = "event"
    /\ channelState[1].note # Sentinel
    /\ channelState[1] # channelState[0]
    /\ channelState[1] # channelState[2]

\* the stream of the single event (13, 1, 0x00, 0x20)
ExampleEvent == <<13, 1, 0, 32>>

\* C14 as stated: the file whose row 0 holds period 428, sample 1, effect 0xC,
\* parameter 0x20 and whose other rows are empty gives a stream of that one
\* event and nothing else.
C14_SingleEvent ==
    (pc = "exit" /\ fill[0] = EmptyCell) => musicData = ExampleEvent

\* C14: row 0 of that file gives the event (13, 1, 0x00, 0x20) as the first
\* four bytes; the 63 empty rows that follow are converted too and add the
\* event (0, 0, 0x14, 0) for row 1 and one repeat-count byte 0x80 + 61 for
\* rows 2..63, so the stream has 9 bytes.
C14_ExampleStream ==
    /\ (pc = "cell" /\ cellPos = 1) => musicData = ExampleEvent
    /\ (pc = "exit" /\ fill[0] = EmptyCell) =>
          /\ musicData = ExampleEvent \o <<0, 0, NoEffect, 0, RepeatFirst + 61>>
          /\ outBytes = SongHeaderSize + 9

\* C14 witness: the file with 63 empty rows after row 0 is converted
C14_Witness ==
    /\ pc = "exit"
    /\ exitCode = 0
    /\ fill[0] = EmptyCell
    /\ SubSeq(musicData, 1, 4) = ExampleEvent
    /\ Len(musicData) = 9

\* C15: whatever length, loop start and loop length the slots declare, the
\* bytes consumed for the slots before smp are twice their declared lengths,
\* so the data of slot smp is read at that offset behind the pattern data;
\* a slot of fewer than 2 words consumes its bytes and writes no chunk.
C15_SampleOffsets ==
    pc \in {"sample", "exit"} =>
        /\ srcPos = declared
        /\ (smp > 0 /\ modSample.length < 2) => kmSample.sampleSize = 2 * modSample.length

\* C16: the last-emitted note, instrument, command and parameter of a channel
\* change only in the step that appends a full event, and then are the four
\* bytes appended; a hold step and a continuation step leave them as they
\* were, so the next cell is compared with the last full event.
C16_ChangeWithFullEvent ==
    [][CellStep =>
          LET st == channelState[chn]
              stN == channelState'[chn]
              len == Len(musicData)
          IN  IF lastKind' = "event"
              THEN /\ Len(musicData') = len + 4
                   /\ SubSeq(musicData', 1, len) = musicData
                   /\ <<stN.note, stN.instr, stN.command, stN.param>>
                         = SubSeq(musicData', len + 1, len + 4)
              ELSE /\ Emitted(stN) = Emitted(st)
                   /\ Len(musicData') <= len + 1
                   /\ lastKind' = "hold" => Event(CellRead) = Emitted(st)
                   /\ lastKind' = "flag" =>
                         /\ Event(CellRead) # Emitted(st)
                         /\ Event(CellRead).command = st.command
                         /\ Event(CellRead).param = st.param]_vars

\* C16 witness: after the event of period 428 two cells of period 404 followed;
\* the second one was a continuation again, compared with the event
C16_Witness ==
    /\ numChannels = 1
    /\ cellPos = 3
    /\ lastKind = "flag"
    /\ fill[0] = OtherNoteCell
    /\ channelState[0].note = 13
    /\ Len(musicData) = 4

\* C17 as stated: a cell with a position jump or a pattern break appends no
\* byte, changes no byte and leaves the state of its channel unchanged.
C17_ControlOnly ==
    [][(CellStep /\ IsControl(CellRead)) =>
          (musicData' = musicData /\ channelState' = channelState)]_vars

\* C17: a cell with a position jump or a pattern break is, beside the jump or
\* break it requests, classified like any cell: as the event of its note and
\* instrument with command 0x14 and parameter 0 it appends a full event, opens
\* or increments a repeat count or sets the continuation flag, and the state
\* of its channel is updated by that branch.
C17_ControlClassified ==
    [][(CellStep /\ IsControl(CellRead)) =>
          LET ev == [note |-> PeriodToNote(CellPeriod(CellRead)),
                     instr |-> CellInstr(CellRead),
                     command |-> NoEffect, param |-> 0]
              out == Emit(channelState[chn], ev, musicData)
          IN  /\ channelState'[chn] = out.st
              /\ musicData' = out.data
              /\ lastKind' = "event" =>
                    /\ Len(musicData') = Len(musicData) + 4
                    /\ Emitted(channelState'[chn]) = ev
              /\ lastKind' = "hold" =>
                    \/ Len(musicData') = Len(musicData) + 1
                    \/ \E i \in 1..Len(musicData) : musicData'[i] = musicData[i] + 1]_vars

\* C17 witness: the first cell of a 1-channel file carried a control effect,
\* ended the row and appended the event (0, 0, 0x14, 0)
C17_Witness ==
    /\ numChannels = 1
    /\ pc = "ord"
    /\ ctl.chn = 0
    /\ IsControl(fill[0])
    /\ lastKind = "event"
    /\ musicData = <<0, 0, NoEffect, 0>>

\* C18: the first cell of every channel appends a full event, so the
\* continuation branch never finds the stream empty; a repeat offset is 0 or
\* the index, at least 4 and below the stream length, of a count byte
\* 0x80..0xFF; two channels never have the same nonzero repeat offset; every
\* cell that is not a hold sets the repeat offset of its channel to 0.
C18_RepeatOffsets ==
    /\ [](\A c \in DOMAIN channelState :
             LET r == channelState[c].repeatOffset
             IN  /\ r = 0 \/ (r >= 4 /\ r < Len(musicData)
                                /\ musicData[r + 1] \in RepeatFirst..RepeatLast)
                 /\ \A d \in DOMAIN channelState :
                       (d # c /\ r # 0) => channelState[d].repeatOffset # r)
    /\ [][CellStep =>
             /\ channelState[chn].command = Sentinel => lastKind' = "event"
             /\ lastKind' = "flag" => Len(musicData) >= 4
             /\ lastKind' # "hold" => channelState'[chn].repeatOffset = 0]_vars

\* C18 witness: two channels have open repeat runs at different offsets, and
\* the run of channel 0 has counted beyond its first hold
C18_Witness ==
    /\ numChannels >= 2
    /\ channelState[0].repeatOffset >= 4
    /\ channelState[1].repeatOffset >= 4
    /\ channelState[0].repeatOffset # channelState[1].repeatOffset
    /\ musicData[channelState[0].repeatOffset + 1] > RepeatFirst

\* the stream read unit by unit from the 1-based position i: a first byte
\* with bit 7 set is a 1-byte repeat count, any other first byte starts a
\* 4-byte event; ok tells that no unit is cut short and that every event has
\* a note 0..36 and an instrument 0..31
RECURSIVE Units(_, _)
Units(data, i) ==
    IF i > Len(data) THEN [ok |-> TRUE, events |-> 0, runs |-> 0]
    ELSE IF data[i] >= RepeatFirst
         THEN LET rest == Units(data, i + 1)
              IN  [rest EXCEPT !.runs = @ + 1]
    ELSE IF i + 3 > Len(data) THEN [ok |-> FALSE, events |-> 0, runs |-> 0]
    ELSE LET rest == Units(data, i + 4)
         IN  [ok |-> rest.ok /\ data[i] \in 0..36 /\ data[i + 1] \in 0..31,
              events |-> rest.events + 1, runs |-> rest.runs]

\* C19: the stream splits, by bit 7 of the first byte of each unit, into
\* 4-byte events with a note 0..36 and an instrument 0..31 and 1-byte repeat
\* counts 0x80..0xFF; its events are the full events appended and its count
\* bytes the repeat runs opened, so its length is 4 times the former plus
\* the latter.
C19_StreamStructure ==
    /\ [](/\ Units(musicData, 1).ok
          /\ Len(musicData) = (4 * Units(musicData, 1).events) + Units(musicData, 1).runs
          /\ pc = "start" => Len(musicData) = 0)
    /\ [][CellStep =>
             LET before == Units(musicData, 1)
                 after == Units(musicData', 1)
                 opened == lastKind' = "hold"
                           /\ channelState'[chn].repeatOffset = Len(musicData)
             IN  /\ after.events = before.events + (IF lastKind' = "event" THEN 1 ELSE 0)
                 /\ after.runs = before.runs + (IF opened THEN 1 ELSE 0)]_vars
    /\ [][~CellStep => musicData' = musicData \/ pc = "start"]_vars

\* C19 witness: a converted stream of at least two events and two repeat
\* counts, one event with the continuation flag in its last byte
C19_Witness ==
    /\ pc = "exit"
    /\ Units(musicData, 1).events >= 2
    /\ Units(musicData, 1).runs >= 2
    /\ \E i \in 1..Len(musicData) :
          musicData[i] < RepeatFirst /\ i + 3 <= Len(musicData)
             /\ musicData[i + 3] >= RepeatFirst /\ musicData[i + 2] # NoEffect

====
